---- MODULE Spec2Model ----
(***************************************************************************)
(* Model of rune's error model (src/core/error.rs) and tagged-object       *)
(* conversion layer (src/core/object/convert.rs).                          *)
(*                                                                         *)
(* Every operation of the two files is a function of its inputs (plus the  *)
(* environment's exception table for signal/throw), so the state is the    *)
(* input under conversion, the last call with its arguments and result,    *)
(* the error value being unwound and the environment.                      *)
(***************************************************************************)
EXTENDS Integers, Sequences, FiniteSets, TLC

VARIABLES
    obj,    \* the tagged value (GcObj) handed to the single-value conversions
    mem,    \* the memory holding the tagged words a borrowed slice points into
    call,   \* name of the last operation that ran ("none" before any)
    arg,    \* the arguments of that operation
    ret,    \* what it returned
    err,    \* the EvalError being unwound (NoError before one is constructed)
    env     \* the evaluation environment's exception registry

vars == <<obj, mem, call, arg, ret, err, env>>

(***************************************************************************)
(* Bounds.  The Int payload is an i64; TLC's integers are 32 bits wide, so *)
(* the payload is modelled IntBits wide, signed, and u64/usize IntBits     *)
(* wide, unsigned (a 64-bit target: usize and u64 have the payload's       *)
(* width).                                                                 *)
(***************************************************************************)
IntBits == 4
MaxLen == 3
MaxTrace == 3
MaxExc == 2

IntMin == -(2 ^ (IntBits - 1))
IntMax == 2 ^ (IntBits - 1) - 1
UnsignedMax == 2 ^ IntBits - 1

(***************************************************************************)
(* Tagged values.  A value is its tag and its payload; every value carries *)
(* both payload fields so that any two values are comparable.              *)
(***************************************************************************)
Object(tag, i, s) == [tag |-> tag, int |-> i, str |-> s]

IntObj(n) == Object("Int", n, "")
StringObj(s) == Object("String", 0, s)
SymbolObj(name) == Object("Symbol", 0, name)

\* the canonical nil and true objects: nil() and qtrue()
NIL == SymbolObj("nil")
TRUE_OBJ == SymbolObj("t")

Ints == IntMin .. IntMax

Objects ==
    {IntObj(n) : n \in Ints}
        \cup {NIL, TRUE_OBJ, SymbolObj("foo")}
        \cup {StringObj(""), StringObj("abc")}
        \cup {Object("Float", 0, "1.5"), Object("Cons", 0, "(1 . 2)"),
              Object("Vec", 0, "[1]"), Object("HashTable", 0, "#s(hash-table)")}

(***************************************************************************)
(* Result<T, E> and Option<T>.                                             *)
(***************************************************************************)
Ok(v) == [ok |-> TRUE, val |-> v]
Err(e) == [ok |-> FALSE, err |-> e]
Some(v) == [some |-> TRUE, val |-> v]
None == [some |-> FALSE]

(***************************************************************************)
(* Formatting of integers: Display for i64 / u16, in decimal.              *)
(***************************************************************************)
Digit(d) ==
    CASE d = 0 -> "0" [] d = 1 -> "1" [] d = 2 -> "2" [] d = 3 -> "3"
      [] d = 4 -> "4" [] d = 5 -> "5" [] d = 6 -> "6" [] d = 7 -> "7"
      [] d = 8 -> "8" [] d = 9 -> "9"

RECURSIVE FmtNat(_)
FmtNat(n) == IF n < 10 THEN Digit(n) ELSE FmtNat(n \div 10) \o Digit(n % 10)

FmtInt(x) == IF x < 0 THEN "-" \o FmtNat(-x) ELSE FmtNat(x)

(***************************************************************************)
(* The tagged-value layer the conversions consume: the nil predicate, the  *)
(* dynamic-type classifier and the printer.                                *)
(***************************************************************************)
\* GcObj::nil: the nil predicate
IsNil(o) == o = NIL

\* Object::get_type: the value's TypeCategory
get_type(o) == o.tag

\* Object::to_string: the printed snapshot of a value
to_string(o) ==
    CASE o.tag = "Int" -> FmtInt(o.int)
      [] o.tag = "String" -> "\"" \o o.str \o "\""
      [] OTHER -> o.str

(***************************************************************************)
(* Diagnostics (error.rs).                                                 *)
(***************************************************************************)
\* TypeError::new(expect, obj)
TypeErrorNew(expect, o) ==
    [kind |-> "TypeError", expect |-> expect, actual |-> get_type(o),
     print |-> to_string(o)]

\* impl Display for TypeError
DisplayTypeError(e) ==
    "expected " \o e.expect \o ", found " \o e.actual \o ": " \o e.print

\* ArgError::new(expect, actual, name)
ArgErrorNew(expect, actual, name) ==
    [kind |-> "ArgError", expect |-> expect, actual |-> actual, name |-> name]

\* the backquote character of the ArgError message (a backquote cannot be
\* written in a string without a closing quote after it)
Backquote == SubSeq("`'", 1, 1)

\* impl Display for ArgError
DisplayArgError(e) ==
    "Expected " \o FmtNat(e.expect) \o " argument(s) for " \o Backquote \o e.name
        \o "', but found " \o FmtNat(e.actual)

(***************************************************************************)
(* anyhow::Error: a TypeError or ArgError converted with into(), an ad-hoc *)
(* message (anyhow!), or an error wrapped with a context message.          *)
(***************************************************************************)
AnyhowMsg(m) == [kind |-> "Msg", msg |-> m]

\* Result::with_context on Err(source): the context message wraps the source
WithContext(source, m) == [kind |-> "Context", context |-> m, source |-> source]

\* "{e}" of an anyhow::Error: the outermost message
DisplayAnyhow(e) ==
    CASE e.kind = "TypeError" -> DisplayTypeError(e)
      [] e.kind = "ArgError" -> DisplayArgError(e)
      [] e.kind = "Context" -> e.context
      [] e.kind = "Msg" -> e.msg

(***************************************************************************)
(* Integer narrowing of the standard library, as used at convert.rs:39-41, *)
(* 51-53 and 63: i64 -> usize / u64 fails exactly on a negative value.     *)
(***************************************************************************)
TryFromIntError == [kind |-> "TryFromIntError"]

TryIntoU64(x) == IF x < 0 THEN Err(TryFromIntError) ELSE Ok(x % (UnsignedMax + 1))

TryIntoUsize(x) == IF x < 0 THEN Err(TryFromIntError) ELSE Ok(x % (UnsignedMax + 1))

\* &LispString -> &str, the conversion behind x.try_into() at convert.rs:18,29
LispStringTryInto(o) == Ok(o.str)

RangeMessage(x) == "Integer must be positive, but was " \o FmtInt(x)

(***************************************************************************)
(* Single-value conversions (convert.rs).                                  *)
(***************************************************************************)
\* impl TryFrom<GcObj> for &str
TryFromStr(o) ==
    IF o.tag = "String" THEN LispStringTryInto(o)
    ELSE Err(TypeErrorNew("String", o))

\* TryFromOptionStr with nil handed to the type check instead of mapped to None
TryFromOptionStr_NoNil(o) ==
    IF o.tag = "String"
    THEN LET r == LispStringTryInto(o)
         IN  IF r.ok THEN Ok(Some(r.val)) ELSE r
    ELSE Err(TypeErrorNew("String", o))

\* impl TryFrom<GcObj> for Option<&str>
TryFromOptionStr(o) ==
    IF o = NIL THEN Ok(None)
    ELSE IF o.tag = "String"
         THEN LET r == LispStringTryInto(o)
              IN  IF r.ok THEN Ok(Some(r.val)) ELSE r
         ELSE Err(TypeErrorNew("String", o))

\* TryFromUsize taking "positive" literally: zero is rejected as well
TryFromUsize_StrictlyPositive(o) ==
    IF o.tag = "Int"
    THEN IF o.int > 0 THEN Ok(o.int)
         ELSE Err(WithContext(TryFromIntError, RangeMessage(o.int)))
    ELSE Err(TypeErrorNew("Int", o))

\* impl TryFrom<GcObj> for usize
TryFromUsize(o) ==
    IF o.tag = "Int"
    THEN LET r == TryIntoUsize(o.int)
         IN  IF r.ok THEN r ELSE Err(WithContext(r.err, RangeMessage(o.int)))
    ELSE Err(TypeErrorNew("Int", o))

\* impl TryFrom<GcObj> for u64
TryFromU64(o) ==
    IF o.tag = "Int"
    THEN LET r == TryIntoU64(o.int)
         IN  IF r.ok THEN r ELSE Err(WithContext(r.err, RangeMessage(o.int)))
    ELSE Err(TypeErrorNew("Int", o))

\* TryFromOptionUsize with the range failure reported as a type mismatch
TryFromOptionUsize_TypeError(o) ==
    IF o.tag = "Int" /\ o.int >= 0 THEN Ok(Some(o.int))
    ELSE IF o = NIL THEN Ok(None)
         ELSE Err(TypeErrorNew("Int", o))

\* impl TryFrom<GcObj> for Option<usize>
TryFromOptionUsize(o) ==
    IF o.tag = "Int"
    THEN LET r == TryIntoUsize(o.int)
         IN  IF r.ok THEN Ok(Some(r.val))
             ELSE Err(WithContext(r.err, RangeMessage(o.int)))
    ELSE IF o = NIL THEN Ok(None)
         ELSE Err(TypeErrorNew("Int", o))

\* impl TryFrom<GcObj> for bool
TryFromBool(o) == Ok(IsNil(o))

\* impl TryFrom<GcObj> for Option<()>: bool::then_some(())
TryFromOptionUnit(o) == Ok(IF IsNil(o) THEN Some("()") ELSE None)

(***************************************************************************)
(* Specification of the single-value conversions: the input is any tagged  *)
(* value, and each action applies one conversion to it.                    *)
(***************************************************************************)
NoError == [backtrace |-> <<>>, error |-> [variant |-> "None"]]
EmptyEnv == [exceptions |-> <<>>]

InitConvert ==
    /\ obj \in Objects
    /\ mem = <<>>
    /\ call = "none"
    /\ arg = <<>>
    /\ ret = <<>>
    /\ err = NoError
    /\ env = EmptyEnv

Convert(name, result) ==
    /\ call' = name
    /\ arg' = <<obj>>
    /\ ret' = result
    /\ UNCHANGED <<obj, mem, err, env>>

CallTryFromStr == Convert("str", TryFromStr(obj))
CallTryFromOptionStr == Convert("option_str", TryFromOptionStr(obj))
CallTryFromUsize == Convert("usize", TryFromUsize(obj))
CallTryFromU64 == Convert("u64", TryFromU64(obj))
CallTryFromOptionUsize == Convert("option_usize", TryFromOptionUsize(obj))
CallTryFromBool == Convert("bool", TryFromBool(obj))
CallTryFromOptionUnit == Convert("option_unit", TryFromOptionUnit(obj))

NextConvert ==
    \/ CallTryFromStr
    \/ CallTryFromOptionStr
    \/ CallTryFromUsize
    \/ CallTryFromU64
    \/ CallTryFromOptionUsize
    \/ CallTryFromBool
    \/ CallTryFromOptionUnit

SpecConvert == InitConvert /\ [][NextConvert]_vars

(***************************************************************************)
(* Whole-sequence conversion (convert.rs, try_from_slice).                 *)
(*                                                                         *)
(* A borrowed slice &[GcObj] is a pointer into mem and a length; the       *)
(* narrowed slice &[Gc<T>] is a pointer and a length again, over the same  *)
(* memory, its words read as Gc<T>.  Gc<T> and GcObj have the same         *)
(* representation, so element i of a view is the word at ptr + i.          *)
(***************************************************************************)
\* the T of Gc<T>: the tag the narrowed type stands for
Targets == {"Int", "String", "Symbol", "Cons"}

SliceObjects == {IntObj(1), StringObj("abc"), NIL, Object("Cons", 0, "(1 . 2)")}

\* Gc<T>::try_from(GcObj): the per-element tag check
GcTryFrom(T, o) == IF o.tag = T THEN Ok(o) ELSE Err(TypeErrorNew(T, o))

\* slice[i] of a slice or view v over memory m (i counted from 0)
ViewAt(m, v, i) == m[v.ptr + i]

\* the words a slice or view covers, in order
ViewContents(m, v) == [i \in 1 .. v.len |-> m[v.ptr + i - 1]]

\* slice.as_ptr().cast::<Gc<T>>() with slice.len(): from_raw_parts(ptr, len)
FromRawParts(T, ptr, len) == [ptr |-> ptr, len |-> len, elem |-> T]

\* the for loop of try_from_slice, from element i on, then the cast
RECURSIVE try_from_slice_loop(_, _, _, _)
try_from_slice_loop(T, m, slice, i) ==
    IF i = slice.len
    THEN Ok(FromRawParts(T, slice.ptr, slice.len))
    ELSE LET new == GcTryFrom(T, ViewAt(m, slice, i))
         IN  IF new.ok THEN try_from_slice_loop(T, m, slice, i + 1)
             ELSE Err(new.err)

\* try_from_slice checking the elements from the last one down, so that the
\* error is the one of the last wrongly tagged element
RECURSIVE try_from_slice_backwards(_, _, _, _)
try_from_slice_backwards(T, m, slice, i) ==
    IF i = 0
    THEN Ok(FromRawParts(T, slice.ptr, slice.len))
    ELSE LET new == GcTryFrom(T, ViewAt(m, slice, i - 1))
         IN  IF new.ok THEN try_from_slice_backwards(T, m, slice, i - 1)
             ELSE Err(new.err)

try_from_slice_LastError(T, m, slice) ==
    try_from_slice_backwards(T, m, slice, slice.len)

\* try_from_slice handing out a view one element short of the input
try_from_slice_ShortView(T, m, slice) ==
    LET r == try_from_slice_loop(T, m, slice, 0)
    IN  IF r.ok /\ slice.len > 0
        THEN Ok(FromRawParts(T, slice.ptr, slice.len - 1))
        ELSE r

\* try_from_slice<T, E>(slice: &[GcObj]) -> Result<&[Gc<T>], E>
try_from_slice(T, m, slice) == try_from_slice_loop(T, m, slice, 0)

(***************************************************************************)
(* Specification of the whole-sequence conversion: memory holds any        *)
(* sequence of tagged values, and the actions convert any slice of it, or  *)
(* one element of it, to any target.                                       *)
(***************************************************************************)
SeqsUpTo(S, n) == UNION {[1 .. k -> S] : k \in 0 .. n}

\* every borrowed slice of m: &m[a..b]
SlicesOf(m) ==
    {s \in [ptr : 1 .. Len(m) + 1, len : 0 .. Len(m)] : s.ptr + s.len <= Len(m) + 1}

InitSlice ==
    /\ obj = NIL
    /\ mem \in SeqsUpTo(SliceObjects, MaxLen)
    /\ call = "none"
    /\ arg = <<>>
    /\ ret = <<>>
    /\ err = NoError
    /\ env = EmptyEnv

CallTryFromSlice ==
    \E T \in Targets, slice \in SlicesOf(mem) :
        /\ call' = "try_from_slice"
        /\ arg' = [T |-> T, slice |-> slice, contents |-> ViewContents(mem, slice)]
        /\ ret' = try_from_slice(T, mem, slice)
        /\ UNCHANGED <<obj, mem, err, env>>

CallGcTryFrom ==
    \E T \in Targets, i \in 1 .. Len(mem) :
        /\ call' = "gc_try_from"
        /\ arg' = [T |-> T, slice |-> [ptr |-> i, len |-> 1], contents |-> <<mem[i]>>]
        /\ ret' = GcTryFrom(T, mem[i])
        /\ UNCHANGED <<obj, mem, err, env>>

NextSlice ==
    \/ CallTryFromSlice
    \/ CallGcTryFrom

SpecSlice == InitSlice /\ [][NextSlice]_vars

(***************************************************************************)
(* The error model (error.rs).                                             *)
(***************************************************************************)
\* enum ErrorType
Throw(id) == [variant |-> "Throw", id |-> id]
Signal(id) == [variant |-> "Signal", id |-> id]
ErrAnyhow(e) == [variant |-> "Err", cause |-> e]

\* struct EvalError
EvalError(backtrace, error) == [backtrace |-> backtrace, error |-> error]

\* Env::set_exception(tag, data) -> id: records the pair in the environment's
\* exception registry and returns the handle it minted for it
set_exception(e, tag, data) ==
    LET id == Len(e.exceptions) + 1
    IN  [env |-> [exceptions |-> Append(e.exceptions,
                                        [id |-> id, tag |-> tag, data |-> data])],
         id |-> id]

\* display_slice(args): the printer's rendering of a sequence of values
RECURSIVE display_slice(_)
display_slice(args) ==
    IF args = <<>> THEN ""
    ELSE IF Len(args) = 1 THEN to_string(args[1])
    ELSE to_string(args[1]) \o " " \o display_slice(Tail(args))

\* format!("{name} {display}")
Frame(name, args) == name \o " " \o display_slice(args)

\* EvalError::new_error
new_error(error) == EvalError(<<>>, ErrAnyhow(error))

\* signal building the variant of throw
signal_AsThrow(error_symbol, data, e) ==
    LET reg == set_exception(e, error_symbol, data)
    IN  [env |-> reg.env, err |-> EvalError(<<>>, Throw(reg.id))]

\* EvalError::signal: the error and the environment it leaves
signal(error_symbol, data, e) ==
    LET reg == set_exception(e, error_symbol, data)
    IN  [env |-> reg.env, err |-> EvalError(<<>>, Signal(reg.id))]

\* EvalError::throw: the error and the environment it leaves
throw(tag, data, e) ==
    LET reg == set_exception(e, tag, data)
    IN  [env |-> reg.env, err |-> EvalError(<<>>, Throw(reg.id))]

\* EvalError::with_trace
with_trace(error, name, args) == EvalError(<<Frame(name, args)>>, ErrAnyhow(error))

\* add_trace putting the new frame in front of the older ones
add_trace_Prepend(self, name, args) ==
    EvalError(<<Frame(name, args)>> \o self.backtrace, self.error)

\* EvalError::add_trace
add_trace(self, name, args) ==
    EvalError(Append(self.backtrace, Frame(name, args)), self.error)

\* impl From<anyhow::Error> for EvalError
FromAnyhow(e) == new_error(e)

\* impl From<String> for EvalError
FromString(e) == new_error(AnyhowMsg(e))

\* impl From<&'static str> for EvalError
FromStaticStr(e) == new_error(AnyhowMsg(e))

\* impl From<TypeError> for EvalError
FromTypeError(e) == new_error(e)

\* impl From<ArgError> for EvalError
FromArgError(e) == new_error(e)

Reverse(s) == [i \in 1 .. Len(s) |-> s[Len(s) + 1 - i]]

\* Display printing the frames outermost first
DisplayEvalError_Reversed(self) ==
    <<CASE self.error.variant = "Err" -> DisplayAnyhow(self.error.cause)
        [] self.error.variant = "Throw" -> "No catch for throw"
        [] self.error.variant = "Signal" -> "Signal">>
        \o Reverse(self.backtrace)
        \o <<"END_BACKTRACE">>

\* impl Display for EvalError: the lines written, one per writeln!
DisplayEvalError(self) ==
    <<CASE self.error.variant = "Err" -> DisplayAnyhow(self.error.cause)
        [] self.error.variant = "Throw" -> "No catch for throw"
        [] self.error.variant = "Signal" -> "Signal">>
        \o [i \in 1 .. Len(self.backtrace) |-> self.backtrace[i]]
        \o <<"END_BACKTRACE">>

(***************************************************************************)
(* Specification of the error model: errors are constructed by every       *)
(* entry point, gain frames as they unwind, and are rendered.              *)
(***************************************************************************)
Messages == {"boom", ""}

TypeErrors == {TypeErrorNew("Int", Object("Cons", 0, "(1 . 2)")),
               TypeErrorNew("String", IntObj(-1))}

ArgErrors == {ArgErrorNew(2, 3, "my-fn")}

AnyhowErrors ==
    {AnyhowMsg("boom"), WithContext(TryFromIntError, RangeMessage(-1))}
        \cup TypeErrors \cup ArgErrors

Names == {"f", "g"}
ArgLists == {<<>>, <<IntObj(1), StringObj("abc")>>}

ExcTags == {SymbolObj("foo"), IntObj(1)}
ExcData == {StringObj("abc")}

InitError ==
    /\ obj = NIL
    /\ mem = <<>>
    /\ call = "none"
    /\ arg = <<>>
    /\ ret = <<>>
    /\ err = NoError
    /\ env = EmptyEnv

\* a construction entry point that leaves the environment alone
Construct(name, input, result) ==
    /\ call' = name
    /\ arg' = input
    /\ ret' = <<>>
    /\ err' = result
    /\ UNCHANGED <<obj, mem, env>>

CallNewError ==
    \E e \in AnyhowErrors : Construct("new_error", [error |-> e], new_error(e))

CallSignal ==
    \E sym \in ExcTags, data \in ExcData :
        /\ Len(env.exceptions) < MaxExc
        /\ LET r == signal(sym, data, env)
           IN  /\ err' = r.err
               /\ env' = r.env
        /\ call' = "signal"
        /\ arg' = [tag |-> sym, data |-> data]
        /\ ret' = <<>>
        /\ UNCHANGED <<obj, mem>>

CallThrow ==
    \E tag \in ExcTags, data \in ExcData :
        /\ Len(env.exceptions) < MaxExc
        /\ LET r == throw(tag, data, env)
           IN  /\ err' = r.err
               /\ env' = r.env
        /\ call' = "throw"
        /\ arg' = [tag |-> tag, data |-> data]
        /\ ret' = <<>>
        /\ UNCHANGED <<obj, mem>>

CallWithTrace ==
    \E e \in AnyhowErrors, name \in Names, args \in ArgLists :
        Construct("with_trace", [error |-> e, name |-> name, args |-> args],
                  with_trace(e, name, args))

CallAddTrace ==
    \E name \in Names, args \in ArgLists :
        /\ err # NoError
        /\ Len(err.backtrace) < MaxTrace
        /\ call' = "add_trace"
        /\ arg' = [name |-> name, args |-> args]
        /\ ret' = <<>>
        /\ err' = add_trace(err, name, args)
        /\ UNCHANGED <<obj, mem, env>>

CallFromAnyhow ==
    \E e \in AnyhowErrors : Construct("from_anyhow", [error |-> e], FromAnyhow(e))

CallFromString ==
    \E e \in Messages : Construct("from_string", [error |-> e], FromString(e))

CallFromStaticStr ==
    \E e \in Messages : Construct("from_static_str", [error |-> e], FromStaticStr(e))

CallFromTypeError ==
    \E e \in TypeErrors : Construct("from_type_error", [error |-> e], FromTypeError(e))

CallFromArgError ==
    \E e \in ArgErrors : Construct("from_arg_error", [error |-> e], FromArgError(e))

\* EvalError::new(error: impl Into<Self>) is error.into(): one of the From
\* conversions above, or the identity when handed an EvalError.  (From<Infallible>
\* has no value to be called with.)
CallNew ==
    \/ err # NoError /\ Construct("new", [error |-> err], err)
    \/ \E e \in AnyhowErrors : Construct("new", [error |-> e], FromAnyhow(e))
    \/ \E e \in Messages : Construct("new", [error |-> e], FromString(e))
    \/ \E e \in TypeErrors : Construct("new", [error |-> e], FromTypeError(e))
    \/ \E e \in ArgErrors : Construct("new", [error |-> e], FromArgError(e))

\* rendering with "{}": the error itself is only borrowed
CallDisplay ==
    /\ err # NoError
    /\ call' = "display"
    /\ arg' = <<>>
    /\ ret' = DisplayEvalError(err)
    /\ UNCHANGED <<obj, mem, err, env>>

NextError ==
    \/ CallNewError
    \/ CallSignal
    \/ CallThrow
    \/ CallNew
    \/ CallWithTrace
    \/ CallAddTrace
    \/ CallFromAnyhow
    \/ CallFromString
    \/ CallFromStaticStr
    \/ CallFromTypeError
    \/ CallFromArgError
    \/ CallDisplay

SpecError == InitError /\ [][NextError]_vars

(***************************************************************************)
(* Claims about the single-value conversions (checked under SpecConvert).  *)
(***************************************************************************)

\* C1: the conversion to bool never fails, and yields false for the canonical
\* nil object and true for every other value.
C1_BoolIsNotNil ==
    call = "bool" => /\ ret.ok
                     /\ ret.val = (obj # NIL)

\* C2: the conversion to a presence flag never fails, and yields None for nil
\* and Some(unit) for every other value.
C2_PresenceIsNotNil ==
    call = "option_unit" => /\ ret.ok
                            /\ ret.val = (IF obj = NIL THEN None ELSE Some("()"))

\* C3: a tagged integer n >= 0, anywhere in the payload's range, converts to
\* usize and to u64 successfully and the result is n.
C3_NonNegativeRoundTrips ==
    (call \in {"usize", "u64"} /\ obj.tag = "Int" /\ obj.int >= 0)
        => ret = Ok(obj.int)

C3_Witness ==
    /\ call \in {"usize", "u64"}
    /\ obj = IntObj(IntMax)
    /\ ret = Ok(IntMax)

UnsignedCalls == {"usize", "u64", "option_usize"}

\* C4: a tagged integer n < 0 converted to usize, u64 or Option<usize> fails
\* with the range failure whose message is "Integer must be positive, but was n"
\* and not with a TypeError; a TypeError is produced, with expect = Int, only
\* for a value whose tag is not Int (and that is not nil, for Option<usize>).
C4_NegativeIsRangeFailure ==
    call \in UnsignedCalls =>
        /\ (obj.tag = "Int" /\ obj.int < 0) =>
              /\ ~ret.ok
              /\ ret.err.kind = "Context"
              /\ ret.err.source = TryFromIntError
              /\ DisplayAnyhow(ret.err)
                    = "Integer must be positive, but was " \o FmtInt(obj.int)
              /\ obj.int = -1 =>
                    DisplayAnyhow(ret.err) = "Integer must be positive, but was -1"
              /\ obj.int = -8 =>
                    DisplayAnyhow(ret.err) = "Integer must be positive, but was -8"
        /\ (~ret.ok /\ ret.err.kind = "TypeError") =>
              /\ ret.err.expect = "Int"
              /\ obj.tag # "Int"
              /\ call = "option_usize" => obj # NIL

C4_Witness ==
    /\ call = "option_usize"
    /\ obj = IntObj(-8)
    /\ ~ret.ok
    /\ ret.err.kind = "Context"

\* C5: the conversion to optional text yields None for nil, Some(s) with the
\* string's content for a String value, and for any other tag fails with a
\* TypeError expecting String whose actual category is the value's category.
C5_OptionalText ==
    call = "option_str" =>
        IF obj = NIL THEN ret = Ok(None)
        ELSE IF obj.tag = "String" THEN ret = Ok(Some(obj.str))
        ELSE /\ ~ret.ok
             /\ ret.err.kind = "TypeError"
             /\ ret.err.expect = "String"
             /\ ret.err.actual = obj.tag

C5_Witness ==
    /\ call = "option_str"
    /\ \/ obj = NIL /\ ret = Ok(None)
       \/ obj = StringObj("abc") /\ ret = Ok(Some("abc"))

(***************************************************************************)
(* Claims about the whole-sequence conversion (checked under SpecSlice).   *)
(***************************************************************************)
\* the positions of the wrongly tagged elements of the converted slice
WronglyTagged == {i \in 1 .. Len(arg.contents) : arg.contents[i].tag # arg.T}

FirstWronglyTagged == CHOOSE i \in WronglyTagged : \A j \in WronglyTagged : i <= j

\* C6: try_from_slice over a slice with a wrongly tagged element fails with
\* exactly the error Gc<T>::try_from gives for the first such element, and a
\* narrowed view is returned only if every element passed the check.
C6_FirstElementErrorNoView ==
    call = "try_from_slice" =>
        /\ WronglyTagged # {} =>
              /\ ~ret.ok
              /\ ret = Err(GcTryFrom(arg.T, arg.contents[FirstWronglyTagged]).err)
        /\ ret.ok => WronglyTagged = {}

C6_Witness ==
    /\ call = "try_from_slice"
    /\ ~ret.ok
    /\ Cardinality(WronglyTagged) >= 2
    /\ FirstWronglyTagged > 1
    /\ \E i \in WronglyTagged :
          GcTryFrom(arg.T, arg.contents[i]).err # ret.err

\* C7: try_from_slice over a slice whose elements all have the target's tag
\* (the empty slice included) succeeds; the view has the input's length, lies
\* over the same memory, its element i is the input's element i, and the
\* input is unchanged.
C7_ViewIsTheSameSequence ==
    (call = "try_from_slice" /\ WronglyTagged = {}) =>
        /\ ret.ok
        /\ ret.val.len = arg.slice.len
        /\ ret.val.ptr = arg.slice.ptr
        /\ \A i \in 0 .. arg.slice.len - 1 :
              ViewAt(mem, ret.val, i) = arg.contents[i + 1]
        /\ ViewContents(mem, arg.slice) = arg.contents

C7_Witness ==
    /\ call = "try_from_slice"
    /\ WronglyTagged = {}
    /\ arg.slice.len >= 2
    /\ arg.slice.ptr > 1
    /\ ret.ok
    /\ ViewContents(mem, ret.val) = arg.contents

(***************************************************************************)
(* Claims about the error model (checked under SpecError).                 *)
(***************************************************************************)
\* C8: every add_trace leaves the frames the error had, in their order, adds
\* exactly one frame after them (the one made of its name and arguments), and
\* leaves the cause unchanged; so "f" appended before "g" precedes it, and
\* both follow the frames that were there before.
C8_AddTraceAppends ==
    [][call' = "add_trace" =>
          /\ Len(err'.backtrace) = Len(err.backtrace) + 1
          /\ SubSeq(err'.backtrace, 1, Len(err.backtrace)) = err.backtrace
          /\ err'.backtrace[Len(err'.backtrace)]
                = arg'.name \o " " \o display_slice(arg'.args)
          /\ (arg'.name = "g" /\ arg'.args = <<>>) =>
                err'.backtrace[Len(err'.backtrace)] = "g "
          /\ err'.error = err.error]_vars

C8_Witness ==
    /\ call = "add_trace"
    /\ err.error.variant = "Err"
    /\ err.backtrace = <<"g 1 \"abc\"", "f ", "g ">>

\* C9: rendering writes the cause line (the cause's message for Err, "No catch
\* for throw" for Throw, "Signal" for Signal), then every frame of the
\* backtrace on its own line in backtrace order, then END_BACKTRACE last.
C9_RenderedLines ==
    call = "display" =>
        /\ Len(ret) = Len(err.backtrace) + 2
        /\ ret[1] = (IF err.error.variant = "Throw" THEN "No catch for throw"
                     ELSE IF err.error.variant = "Signal" THEN "Signal"
                     ELSE DisplayAnyhow(err.error.cause))
        /\ (err.error = ErrAnyhow(ArgErrorNew(2, 3, "my-fn"))) =>
              ret[1] = "Expected 2 argument(s) for `my-fn', but found 3"
        /\ (err.error = ErrAnyhow(TypeErrorNew("Int", Object("Cons", 0, "(1 . 2)")))) =>
              ret[1] = "expected Int, found Cons: (1 . 2)"
        /\ \A i \in 1 .. Len(err.backtrace) : ret[i + 1] = err.backtrace[i]
        /\ ret[Len(ret)] = "END_BACKTRACE"

C9_Witness ==
    /\ call = "display"
    /\ err.error.variant = "Signal"
    /\ ret = <<"Signal", "f ", "g 1 \"abc\"", "END_BACKTRACE">>

Constructors ==
    {"new_error", "with_trace", "from_anyhow", "from_string",
     "from_static_str", "from_type_error", "from_arg_error"}

\* C10: signal and throw each add exactly one (tag, data) pair to the
\* environment's registry and return an error with an empty backtrace whose
\* cause is Signal, respectively Throw, of the id the registration returned;
\* every other construction yields an Err cause and leaves the environment
\* as it was.
C10_SignalThrowRegisterOnce ==
    [][/\ call' \in {"signal", "throw"} =>
             LET reg == set_exception(env, arg'.tag, arg'.data)
             IN  /\ Len(env'.exceptions) = Len(env.exceptions) + 1
                 /\ env' = reg.env
                 /\ env'.exceptions[Len(env'.exceptions)].tag = arg'.tag
                 /\ env'.exceptions[Len(env'.exceptions)].data = arg'.data
                 /\ err'.backtrace = <<>>
                 /\ err'.error.variant = (IF call' = "signal" THEN "Signal" ELSE "Throw")
                 /\ err'.error.id = reg.id
       /\ call' \in Constructors =>
             /\ err'.error.variant = "Err"
             /\ env' = env]_vars

C10_Witness ==
    /\ call = "signal"
    /\ Len(env.exceptions) = 2
    /\ err = EvalError(<<>>, Signal(2))
    /\ env.exceptions[2] = [id |-> 2, tag |-> arg.tag, data |-> arg.data]

====
